---- MODULE Spec2Model ----
(***************************************************************************)
(* GBP ranking analysis generator: grid generation, per-point polling of   *)
(* the ranking API, aggregation into a business registry and a rank        *)
(* mapping, publication of the report and recording of the run.            *)
(*                                                                         *)
(* Two implementations are modelled side by side:                          *)
(*   "script"  src/generate_analysis.py            (module functions)      *)
(*   "class"   src/generator/generate_analysis.py  (GBPAnalysisGenerator)  *)
(*                                                                         *)
(* Coordinates are kept exactly, relative to the centre: a point's lat is  *)
(* counted in half offsets (offset = distance_km / 111) and its lon in     *)
(* half corrected offsets (offset / cos(center_lat)), so                   *)
(*   lat = center_lat + (start_row + i) * offset  is  2*i - (rows - 1).    *)
(***************************************************************************)
EXTENDS Integers, Sequences, FiniteSets, TLC

VARIABLES
    impl,            \* which implementation runs: "script" or "class"
    num_points,      \* --points
    pc,              \* position of the run
    rows, cols,      \* calculate_grid_dimensions' result
    i, j,            \* generate_grid_points' loop counters
    point_count,     \* generate_grid_points' point_count
    grid_points,     \* the points emitted so far / the generated grid
    idx,             \* 1-based position of the polling loop in grid_points
    log,             \* what the ranking API answered, per polled point, in order
    all_businesses,  \* the business registry, in insertion order
    ranking_data,    \* script: biz_id -> point id -> position (as triples)
    all_rankings,    \* class: the ranking rows, in append order
    api_calls,       \* class: api_calls
    report,          \* the assembled report (result / output_data)
    github,          \* the repository's data/ directory: path -> content
    db,              \* the committed state of the database
    error,           \* the exception that ended the run, and where it ended up
    put_calls,       \* calls of push_to_github made by the run
    db_calls,        \* database sessions or statements groups the run attempted
    last_push        \* the outcome of the last direct push_to_github call

vars == <<impl, num_points, pc, rows, cols, i, j, point_count, grid_points, idx,
          log, all_businesses, ranking_data, all_rankings, api_calls, report,
          github, db, error, put_calls, db_calls, last_push>>

gridVars == <<rows, cols, i, j, point_count, grid_points>>
aggVars  == <<idx, log, all_businesses, ranking_data, all_rankings, api_calls, report>>
extVars  == <<github, db, put_calls, db_calls, last_push>>

(***************************************************************************)
(* Bounds of the model.                                                    *)
(***************************************************************************)
MaxPoints == 2
MaxItems == 3
MaxGridPoints == 12
MaxNegative == 1

Impls == {"script", "class"}

Null == "null"
NoId == Null

(***************************************************************************)
(* Grid generation                                                         *)
(***************************************************************************)
\* int(math.floor(math.sqrt(num_points))), for num_points >= 0
FloorSqrt(n) == CHOOSE r \in 0..n : r * r <= n /\ (r + 1) * (r + 1) > n

\* A division that rounds down where the code rounds up.
FloorDiv(a, b) == a \div b

\* math.ceil(a / b), for a >= 0 and b > 0
CeilDiv(a, b) == (a + b - 1) \div b

\* Dimensions with the row count clamped to 1 and a negative count read as 0:
\* nothing is raised, and a count of 0 gives a lattice of no columns.
ClampedGridDimensions(n) ==
    LET m == IF n < 0 THEN 0 ELSE n
        r == IF FloorSqrt(m) = 0 THEN 1 ELSE FloorSqrt(m)
    IN  [raises |-> "none", rows |-> r, cols |-> CeilDiv(m, r)]

\* calculate_grid_dimensions: rows and cols, or the exception it raises:
\* math.sqrt of a negative number is a ValueError, and num_points / rows with
\* rows = 0 a ZeroDivisionError.
calculate_grid_dimensions(n) ==
    IF n < 0 THEN [raises |-> "ValueError", rows |-> 0, cols |-> 0]
    ELSE IF FloorSqrt(n) = 0 THEN [raises |-> "ZeroDivisionError", rows |-> 0, cols |-> 0]
    ELSE [raises |-> "none", rows |-> FloorSqrt(n), cols |-> CeilDiv(n, FloorSqrt(n))]

\* The dict appended by the inner loop body.
GridPoint(id, r, c, nrows, ncols) ==
    [id |-> id, lat |-> 2 * r - (nrows - 1), lon |-> 2 * c - (ncols - 1)]

NoError == [kind |-> "none", at |-> "none", seen_by |-> "none"]

\* An exception leaving the run: the script's main catches every Exception and
\* prints it, the class's main prints and re-raises.
Raised(kind, at) ==
    [kind |-> kind, at |-> at,
     seen_by |-> IF impl = "script" THEN "main_printed" ELSE "main_reraised"]

NoReport == [built |-> FALSE, grid_points |-> <<>>, businesses |-> <<>>, rankings |-> {}]
NoPush == [by |-> "none", path |-> "none", content |-> "none", existed |-> FALSE, ok |-> FALSE]
EmptyDb == [status |-> "none", rows |-> <<>>]

InitRest ==
    /\ pc = "start"
    /\ rows = 0 /\ cols = 0 /\ i = 0 /\ j = 0 /\ point_count = 0
    /\ grid_points = <<>>
    /\ idx = 1
    /\ log = <<>>
    /\ all_businesses = <<>>
    /\ ranking_data = {}
    /\ all_rankings = <<>>
    /\ api_calls = 0
    /\ report = NoReport
    /\ github = {}
    /\ db = EmptyDb
    /\ error = NoError
    /\ put_calls = 0
    /\ db_calls = 0
    /\ last_push = NoPush

\* generate_grid_points, up to the loops: the dimensions, or the exception
\* calculate_grid_dimensions raises, which ends the run before anything else.
CalcDims ==
    /\ pc = "start"
    /\ IF calculate_grid_dimensions(num_points).raises # "none"
       THEN /\ pc' = "failed"
            /\ error' = Raised(calculate_grid_dimensions(num_points).raises, "grid")
            /\ UNCHANGED <<rows, cols>>
       ELSE /\ rows' = calculate_grid_dimensions(num_points).rows
            /\ cols' = calculate_grid_dimensions(num_points).cols
            /\ pc' = "grid_outer"
            /\ UNCHANGED error
    /\ i' = 0 /\ j' = 0 /\ point_count' = 0 /\ grid_points' = <<>>
    /\ UNCHANGED <<impl, num_points>>
    /\ UNCHANGED aggVars
    /\ UNCHANGED extVars

\* for i in range(rows): if point_count >= num_points: break
GridOuter ==
    /\ pc = "grid_outer"
    /\ IF i < rows /\ point_count < num_points
       THEN /\ j' = 0
            /\ pc' = "grid_inner"
       ELSE /\ pc' = "grid_done"
            /\ UNCHANGED j
    /\ UNCHANGED <<impl, num_points, rows, cols, i, point_count, grid_points, error>>
    /\ UNCHANGED aggVars
    /\ UNCHANGED extVars

\* for j in range(cols): if point_count >= num_points: break; points.append(...)
GridInner ==
    /\ pc = "grid_inner"
    /\ IF j < cols /\ point_count < num_points
       THEN /\ grid_points' = Append(grid_points, GridPoint(point_count, i, j, rows, cols))
            /\ point_count' = point_count + 1
            /\ j' = j + 1
            /\ UNCHANGED <<i, pc>>
       ELSE /\ i' = i + 1
            /\ pc' = "grid_outer"
            /\ UNCHANGED <<j, point_count, grid_points>>
    /\ UNCHANGED <<impl, num_points, rows, cols, error>>
    /\ UNCHANGED aggVars
    /\ UNCHANGED extVars

(***************************************************************************)
(* The ranking API as the run sees it                                      *)
(***************************************************************************)
\* item.get('rating', {}) of an entry that carries no rating
NoRating == [value |-> Null, votes_count |-> Null]

\* The entries the provider may return: a business under its place id alone,
\* the same place id with a cid too and other (stale) attributes, a business
\* known by its cid alone and without a rating, and an entry with neither id.
Items ==
    { [place_id |-> "A", cid |-> NoId, title |-> "t1", address |-> "a1",
       rating |-> [value |-> "4.5", votes_count |-> "10"]],
      [place_id |-> "A", cid |-> "B", title |-> "t2", address |-> "a2",
       rating |-> [value |-> "3.9", votes_count |-> "12"]],
      [place_id |-> NoId, cid |-> "B", title |-> "t3", address |-> "a3",
       rating |-> NoRating],
      [place_id |-> NoId, cid |-> NoId, title |-> "t4", address |-> "a4",
       rating |-> [value |-> "5.0", votes_count |-> "1"]] }

ItemLists == UNION { [1..n -> Items] : n \in 0..MaxItems }

\* requests.post raising, raise_for_status raising, and a body that is not the
\* JSON object the code reads (response.json() or a .get on it raising).
FetchFailures == {"transport_error", "http_error", "bad_payload"}

\* A fetched payload: the items of tasks[0].result[0] (no tasks or no result
\* reads as no items), or a failure.
Outcomes ==
    { [ok |-> TRUE, err |-> "none", items |-> l] : l \in ItemLists }
      \cup { [ok |-> FALSE, err |-> e, items |-> <<>>] : e \in FetchFailures }

(***************************************************************************)
(* Aggregation                                                             *)
(***************************************************************************)
\* The identity with the cid taken first.
BizIdCidFirst(item) == IF item.cid # NoId THEN item.cid ELSE item.place_id

\* item.get('place_id') or item.get('cid')
BizId(item) == IF item.place_id # NoId THEN item.place_id ELSE item.cid

\* The index alone, without the plus one.
RankZeroBased(k) == k - 1

\* enumerate's index of the k-th entry (k counts from 1) plus one
RankOf(k) == (k - 1) + 1

HasBusiness(businesses, biz_id) ==
    \E n \in 1..Len(businesses) : businesses[n].id = biz_id

BusinessOf(biz_id, title, address, rating, reviews) ==
    [id |-> biz_id, title |-> title, address |-> address,
     rating |-> rating, reviews |-> reviews]

\* A registry that leaves out the businesses without a rating.
StoreRatedBusiness(businesses, rec) ==
    IF HasBusiness(businesses, rec.id) \/ rec.rating = Null
    THEN businesses ELSE Append(businesses, rec)

\* A registry whose latest sighting wins: the stored record is replaced.
StoreBusinessOverwrite(businesses, rec) ==
    IF HasBusiness(businesses, rec.id)
    THEN [n \in 1..Len(businesses) |->
            IF businesses[n].id = rec.id THEN rec ELSE businesses[n]]
    ELSE Append(businesses, rec)

\* if biz_id not in all_businesses: all_businesses[biz_id] = {...}
StoreBusiness(businesses, rec) ==
    IF HasBusiness(businesses, rec.id) THEN businesses ELSE Append(businesses, rec)

\* A mapping that keeps the position it already holds for the pair
\* (setdefault in place of the assignment).
StoreRankingKeepFirst(rankings, biz_id, point_id, position) ==
    IF \E t \in rankings : t.business_id = biz_id /\ t.grid_point_id = point_id
    THEN rankings
    ELSE rankings \cup { [business_id |-> biz_id, grid_point_id |-> point_id,
                          position |-> position] }

\* The inner dict created anew on every sighting, without the membership test.
StoreRankingReset(rankings, biz_id, point_id, position) ==
    { t \in rankings : t.business_id # biz_id }
      \cup { [business_id |-> biz_id, grid_point_id |-> point_id, position |-> position] }

\* if biz_id not in ranking_data: ranking_data[biz_id] = {}
\* ranking_data[biz_id][point_id] = position
StoreRanking(rankings, biz_id, point_id, position) ==
    { t \in rankings : ~(t.business_id = biz_id /\ t.grid_point_id = point_id) }
      \cup { [business_id |-> biz_id, grid_point_id |-> point_id, position |-> position] }

\* The script's loop over one point's items, from the k-th on.
RECURSIVE ScriptItems(_, _, _, _)
ScriptItems(st, items, point_id, k) ==
    IF k > Len(items) THEN st
    ELSE LET item == items[k]
             biz_id == BizId(item)
         IN  IF biz_id = NoId
             THEN ScriptItems(st, items, point_id, k + 1)
             ELSE ScriptItems(
                    [businesses |-> StoreBusiness(st.businesses,
                                      BusinessOf(biz_id, item.title, item.address,
                                                 item.rating.value, item.rating.votes_count)),
                     rankings |-> StoreRanking(st.rankings, biz_id, point_id, RankOf(k))],
                    items, point_id, k + 1)

\* One iteration of the script's loop over the grid points: a failed fetch
\* (items is None) is skipped.
ScriptPoint(st, point_id, outcome) ==
    IF ~outcome.ok THEN st ELSE ScriptItems(st, outcome.items, point_id, 1)

\* process_api_response: the rows of one point, from the k-th item on.
RECURSIVE process_api_response(_, _, _)
process_api_response(items, point_id, k) ==
    IF k > Len(items) THEN <<>>
    ELSE LET item == items[k]
             biz_id == BizId(item)
         IN  IF biz_id = NoId
             THEN process_api_response(items, point_id, k + 1)
             ELSE <<[business_id |-> biz_id,
                     business_name |-> item.title,
                     business_address |-> item.address,
                     business_rating |-> item.rating.value,
                     business_reviews |-> item.rating.votes_count,
                     grid_point_id |-> point_id,
                     ranking_position |-> RankOf(k)]>>
                  \o process_api_response(items, point_id, k + 1)

\* The row run_analysis appends to all_rankings for one business of one point.
RankingRow(biz, point) ==
    [business_id |-> biz.business_id,
     business_name |-> biz.business_name,
     business_address |-> biz.business_address,
     business_rating |-> biz.business_rating,
     business_reviews |-> biz.business_reviews,
     grid_point_id |-> point.id,
     grid_lat |-> point.lat,
     grid_lon |-> point.lon,
     ranking_position |-> biz.ranking_position]

\* The class's loop over one point's businesses, from the k-th on.
RECURSIVE ClassBusinesses(_, _, _, _)
ClassBusinesses(st, businesses, point, k) ==
    IF k > Len(businesses) THEN st
    ELSE LET biz == businesses[k]
         IN  ClassBusinesses(
               [businesses |-> StoreBusiness(st.businesses,
                                 BusinessOf(biz.business_id, biz.business_name,
                                            biz.business_address, biz.business_rating,
                                            biz.business_reviews)),
                rankings |-> Append(st.rankings, RankingRow(biz, point))],
               businesses, point, k + 1)

\* One iteration of the class's loop over the grid points, for a fetch that
\* returned.
ClassPoint(st, point, outcome) ==
    ClassBusinesses(st, process_api_response(outcome.items, point.id, 1), point, 1)

\* output_data['rankings'], organised from the first n rows of all_rankings
RECURSIVE OrganizeRankings(_, _)
OrganizeRankings(rankings, n) ==
    IF n = 0 THEN {}
    ELSE StoreRanking(OrganizeRankings(rankings, n - 1), rankings[n].business_id,
                      rankings[n].grid_point_id, rankings[n].ranking_position)

(***************************************************************************)
(* Publisher and recorder, as the run drives them                          *)
(***************************************************************************)
\* The uuid of the run, which names its artifact data/<analysis_id>.json
AnalysisId == "run-1"

HasArtifact(store, path) == \E a \in store : a.path = path

\* PUT /repos/<repo>/contents/<path>: creates the file, or updates it when the
\* payload carries the sha of the stored file; an update without the sha is
\* refused, and so is any call while the service is not available.
GitHubPut(store, path, content, with_sha, avail) ==
    IF avail /\ (~HasArtifact(store, path) \/ with_sha)
    THEN [ok |-> TRUE,
          store |-> { a \in store : a.path # path }
                      \cup { [path |-> path, content |-> content] }]
    ELSE [ok |-> FALSE, store |-> store]

\* script: the payload is message, content and branch, never a sha
ScriptPush(store, path, content, avail) ==
    GitHubPut(store, path, content, FALSE, avail)

\* class: GET the path first, and include its sha when the answer is 200
ClassPush(store, path, content, avail) ==
    GitHubPut(store, path, content, avail /\ HasArtifact(store, path), avail)

push_to_github(by, store, path, content, avail) ==
    IF by = "script" THEN ScriptPush(store, path, content, avail)
    ELSE ClassPush(store, path, content, avail)

\* rankings.get(grid_point['id']) of data['rankings'].get(biz_id, {})
PositionsAt(rankings, biz_id, point_id) ==
    { t.position : t \in { u \in rankings : u.business_id = biz_id
                                              /\ u.grid_point_id = point_id } }

\* save_to_mysql's rows of one business, from the k-th grid point on
RECURSIVE ScriptBusinessRows(_, _, _)
ScriptBusinessRows(data, business, k) ==
    IF k > Len(data.grid_points) THEN <<>>
    ELSE LET grid_point == data.grid_points[k]
             found == PositionsAt(data.rankings, business.id, grid_point.id)
         IN  (IF found = {} THEN <<>>
              ELSE <<[business_id |-> business.id,
                      business_name |-> business.title,
                      business_address |-> business.address,
                      business_rating |-> business.rating,
                      business_reviews |-> business.reviews,
                      grid_point_id |-> grid_point.id,
                      grid_lat |-> grid_point.lat,
                      grid_lon |-> grid_point.lon,
                      ranking_position |-> CHOOSE q \in found : TRUE]>>)
             \o ScriptBusinessRows(data, business, k + 1)

\* save_to_mysql's rows, from the n-th business on
RECURSIVE ScriptRows(_, _)
ScriptRows(data, n) ==
    IF n > Len(data.businesses) THEN <<>>
    ELSE ScriptBusinessRows(data, data.businesses[n], 1) \o ScriptRows(data, n + 1)

\* Where save_to_mysql may raise: connecting, the INSERT of the analysis, an
\* INSERT of a ranking row (when there is one), the commit.
ScriptRecordFailures(data) ==
    {"connect", "analysis_insert", "commit"}
      \cup (IF ScriptRows(data, 1) # <<>> THEN {"ranking_insert"} ELSE {})

\* save_to_mysql: everything is one transaction, rolled back when a statement
\* raises (and never begun when connecting does).
save_to_mysql(database, data, fail_at) ==
    IF fail_at = "none"
    THEN [status |-> "completed", rows |-> database.rows \o ScriptRows(data, 1)]
    ELSE database

\* Where run_analysis may raise after publishing: the executemany of the rows
\* (when there are rows), the UPDATE to 'completed', the commit.
ClassRecordFailures(rankings) ==
    {"update", "commit"} \cup (IF rankings # <<>> THEN {"executemany"} ELSE {})

\* An except block that commits and re-raises without the UPDATE.
CommitOnly(database, pending) ==
    [status |-> database.status, rows |-> database.rows \o pending]

\* run_analysis' except block: UPDATE ... status = 'failed', then conn.commit(),
\* which commits whatever the transaction holds by then.
MarkFailed(database, pending) ==
    [status |-> "failed", rows |-> database.rows \o pending]

\* The rows the transaction holds when the statement at fail_at has raised: none
\* when the executemany itself failed, the inserted rows when the UPDATE failed,
\* and either (kept) after a commit that raised.
PendingRows(rankings, fail_at, kept) ==
    IF fail_at = "update" \/ (fail_at = "commit" /\ kept) THEN rankings ELSE <<>>

(***************************************************************************)
(* The run                                                                 *)
(***************************************************************************)
\* script, generate_analysis: all_businesses = {}; ranking_data = {}
StartScript ==
    /\ pc = "grid_done"
    /\ impl = "script"
    /\ pc' = "poll"
    /\ idx' = 1
    /\ all_businesses' = <<>>
    /\ ranking_data' = {}
    /\ UNCHANGED <<impl, num_points, error, log, all_rankings, api_calls, report>>
    /\ UNCHANGED gridVars
    /\ UNCHANGED extVars

\* class, run_analysis: connect, INSERT the analysis as 'processing', commit;
\* an exception here is raised before the try block.
DbInit ==
    /\ pc = "grid_done"
    /\ impl = "class"
    /\ db_calls' = db_calls + 1
    /\ \E ok \in BOOLEAN :
         IF ok
         THEN /\ db' = [status |-> "processing", rows |-> db.rows]
              /\ pc' = "poll"
              /\ UNCHANGED error
         ELSE /\ pc' = "failed"
              /\ error' = Raised("DatabaseError", "db_init")
              /\ UNCHANGED db
    /\ idx' = 1
    /\ all_businesses' = <<>>
    /\ all_rankings' = <<>>
    /\ api_calls' = 0
    /\ UNCHANGED <<impl, num_points, log, ranking_data, report>>
    /\ UNCHANGED gridVars
    /\ UNCHANGED <<github, put_calls, last_push>>

\* script: one iteration of `for i, point in enumerate(grid_points)`
PollScript ==
    /\ pc = "poll"
    /\ impl = "script"
    /\ idx <= Len(grid_points)
    /\ \E outcome \in Outcomes :
         LET point == grid_points[idx]
             st == ScriptPoint([businesses |-> all_businesses, rankings |-> ranking_data],
                               point.id, outcome)
         IN  /\ log' = Append(log, [point |-> point.id, outcome |-> outcome])
             /\ all_businesses' = st.businesses
             /\ ranking_data' = st.rankings
    /\ idx' = idx + 1
    /\ UNCHANGED <<impl, num_points, pc, error, all_rankings, api_calls, report>>
    /\ UNCHANGED gridVars
    /\ UNCHANGED extVars

\* class: one iteration of `for point in grid_points`; an exception of the call
\* or of process_api_response reaches the except block, which marks the run
\* failed and re-raises.
PollClass ==
    /\ pc = "poll"
    /\ impl = "class"
    /\ idx <= Len(grid_points)
    /\ \E outcome \in Outcomes :
         LET point == grid_points[idx]
             st == ClassPoint([businesses |-> all_businesses, rankings |-> all_rankings],
                              point, outcome)
         IN  /\ log' = Append(log, [point |-> point.id, outcome |-> outcome])
             /\ IF outcome.ok
                THEN /\ all_businesses' = st.businesses
                     /\ all_rankings' = st.rankings
                     /\ api_calls' = api_calls + 1
                     /\ idx' = idx + 1
                     /\ UNCHANGED <<pc, error, db, db_calls>>
                ELSE /\ api_calls' = IF outcome.err = "bad_payload"
                                     THEN api_calls + 1 ELSE api_calls
                     /\ db' = MarkFailed(db, <<>>)
                     /\ db_calls' = db_calls + 1
                     /\ pc' = "failed"
                     /\ error' = Raised(outcome.err, "fetch")
                     /\ UNCHANGED <<all_businesses, all_rankings, idx>>
    /\ UNCHANGED <<impl, num_points, ranking_data, report>>
    /\ UNCHANGED gridVars
    /\ UNCHANGED <<github, put_calls, last_push>>

\* The report: script `result`, class `output_data` with its rankings organised
\* from all_rankings.
Build ==
    /\ pc = "poll"
    /\ idx > Len(grid_points)
    /\ report' = [built |-> TRUE,
                  grid_points |-> grid_points,
                  businesses |-> all_businesses,
                  rankings |-> IF impl = "script" THEN ranking_data
                               ELSE OrganizeRankings(all_rankings, Len(all_rankings))]
    /\ pc' = "built"
    /\ UNCHANGED <<impl, num_points, error, idx, log, all_businesses, ranking_data,
                   all_rankings, api_calls>>
    /\ UNCHANGED gridVars
    /\ UNCHANGED extVars

\* push_to_github(analysis_id, data); in the class a failure reaches the except
\* block of run_analysis.
Publish ==
    /\ pc = "built"
    /\ put_calls' = put_calls + 1
    /\ \E avail \in BOOLEAN :
         LET res == push_to_github(impl, github, AnalysisId, report, avail)
         IN  IF res.ok
             THEN /\ github' = res.store
                  /\ pc' = "published"
                  /\ UNCHANGED <<error, db, db_calls>>
             ELSE /\ pc' = "failed"
                  /\ error' = Raised("HTTPError", "publish")
                  /\ db' = IF impl = "class" THEN MarkFailed(db, <<>>) ELSE db
                  /\ db_calls' = IF impl = "class" THEN db_calls + 1 ELSE db_calls
                  /\ UNCHANGED github
    /\ UNCHANGED <<impl, num_points, last_push>>
    /\ UNCHANGED gridVars
    /\ UNCHANGED aggVars

\* script: save_to_mysql(data, json_url)
RecordScript ==
    /\ pc = "published"
    /\ impl = "script"
    /\ db_calls' = db_calls + 1
    /\ \E fail_at \in {"none"} \cup ScriptRecordFailures(report) :
         /\ db' = save_to_mysql(db, report, fail_at)
         /\ IF fail_at = "none"
            THEN pc' = "completed" /\ UNCHANGED error
            ELSE pc' = "failed" /\ error' = Raised("DatabaseError", "record")
    /\ UNCHANGED <<impl, num_points, github, put_calls, last_push>>
    /\ UNCHANGED gridVars
    /\ UNCHANGED aggVars

\* class: executemany of all_rankings, UPDATE to 'completed', commit; the except
\* block on a failure.
RecordClass ==
    /\ pc = "published"
    /\ impl = "class"
    /\ db_calls' = db_calls + 1
    /\ \E fail_at \in {"none"} \cup ClassRecordFailures(all_rankings), kept \in BOOLEAN :
         IF fail_at = "none"
         THEN /\ db' = [status |-> "completed", rows |-> db.rows \o all_rankings]
              /\ pc' = "completed"
              /\ UNCHANGED error
         ELSE /\ db' = MarkFailed(db, PendingRows(all_rankings, fail_at, kept))
              /\ pc' = "failed"
              /\ error' = Raised("DatabaseError", "record")
    /\ UNCHANGED <<impl, num_points, github, put_calls, last_push>>
    /\ UNCHANGED gridVars
    /\ UNCHANGED aggVars

Init ==
    /\ impl \in Impls
    /\ num_points \in (0 - MaxNegative)..MaxPoints
    /\ InitRest

Next ==
    \/ CalcDims
    \/ GridOuter
    \/ GridInner
    \/ StartScript
    \/ DbInit
    \/ PollScript
    \/ PollClass
    \/ Build
    \/ Publish
    \/ RecordScript
    \/ RecordClass

Spec == Init /\ [][Next]_vars

(***************************************************************************)
(* push_to_github called directly, on a store that may hold the artifact   *)
(***************************************************************************)
PushIds == {"id-1", "id-2"}
PushContents == {"d1", "d2", "d3"}

DirectPush ==
    /\ \E by \in Impls, path \in PushIds, content \in PushContents :
         LET res == push_to_github(by, github, path, content, TRUE)
         IN  /\ github' = res.store
             /\ last_push' = [by |-> by, path |-> path, content |-> content,
                              existed |-> HasArtifact(github, path), ok |-> res.ok]
    /\ UNCHANGED <<impl, num_points, pc, error, db, put_calls, db_calls>>
    /\ UNCHANGED gridVars
    /\ UNCHANGED aggVars

InitPublish ==
    /\ impl \in Impls
    /\ num_points = 1
    /\ InitRest

NextPublish == DirectPush

SpecPublish == InitPublish /\ [][NextPublish]_vars

InitGrid ==
    /\ impl \in Impls
    /\ num_points \in (0 - MaxNegative)..MaxGridPoints
    /\ InitRest

NextGrid == CalcDims \/ GridOuter \/ GridInner

SpecGrid == InitGrid /\ [][NextGrid]_vars

(***************************************************************************)
(* Properties                                                              *)
(***************************************************************************)
\* The entries of the answered lists, in processing order: each with the id
\* of its point and its place k (from 1) in that point's list.
RECURSIVE LoggedFrom(_)
LoggedFrom(n) ==
    IF n > Len(log) THEN <<>>
    ELSE [k \in 1..Len(log[n].outcome.items) |->
            [point |-> log[n].point, k |-> k, item |-> log[n].outcome.items[k]]]
         \o LoggedFrom(n + 1)

Logged == LoggedFrom(1)

HasIdentity(item) == item.place_id # NoId \/ item.cid # NoId

\* The (business, point, position) observations the run holds: the script's
\* ranking_data, the class's rows.
Observations ==
    IF impl = "script" THEN ranking_data
    ELSE { [business_id |-> all_rankings[n].business_id,
            grid_point_id |-> all_rankings[n].grid_point_id,
            position |-> all_rankings[n].ranking_position] : n \in 1..Len(all_rankings) }

FailedPoints == { log[n].point : n \in { m \in 1..Len(log) : ~log[m].outcome.ok } }

\* C1: a grid point whose fetch fails contributes no observation and does not
\* end the run (no exception of a fetch reaches the caller), no point is
\* fetched twice, and the observations of the other points are in the report.
C1_FailedFetchIsNotFatal ==
    LET L == Logged
    IN  /\ error.at # "fetch"
        /\ \A o \in Observations : o.grid_point_id \notin FailedPoints
        /\ \A m, n \in 1..Len(log) : log[m].point = log[n].point => m = n
        /\ report.built =>
             \A n \in 1..Len(L) :
                HasIdentity(L[n].item) =>
                   \E o \in report.rankings :
                      /\ o.grid_point_id = L[n].point
                      /\ o.business_id \in {L[n].item.place_id, L[n].item.cid}

\* C2: the grid holds point_count points with ids 0, 1, 2, ... in row-major
\* order of the lattice, and once generated for num_points >= 1 it holds
\* exactly num_points points, the lattice being at least that large.
C2_GridCount ==
    /\ Len(grid_points) = point_count
    /\ \A k \in 1..Len(grid_points) :
         /\ grid_points[k].id = k - 1
         /\ grid_points[k].lat = 2 * ((k - 1) \div cols) - (rows - 1)
         /\ grid_points[k].lon = 2 * ((k - 1) % cols) - (cols - 1)
    /\ (pc = "grid_done" /\ num_points >= 1) =>
         /\ Len(grid_points) = num_points
         /\ rows * cols >= num_points

\* A grid that stopped in the middle of its last row.
C2_Witness ==
    /\ pc = "grid_done"
    /\ num_points = 5
    /\ Len(grid_points) = 5
    /\ rows * cols > num_points
    /\ grid_points[5].id = 4

\* The places in L (the logged entries) of the entries whose identity is biz_id.
SightingsIn(L, biz_id) ==
    { n \in 1..Len(L) : HasIdentity(L[n].item) /\ BizId(L[n].item) = biz_id }

\* The first of them.
FirstSightingIn(L, biz_id) ==
    LET seen == SightingsIn(L, biz_id)
    IN  L[CHOOSE n \in seen : \A m \in seen : n <= m].item

\* C3: every stored business record holds the name, address, rating and review
\* count of the first entry with its id in processing order, and the report's
\* business list is that registry.
C3_FirstSeenFieldsWin ==
    LET L == Logged
    IN  /\ \A n \in 1..Len(all_businesses) :
             /\ SightingsIn(L, all_businesses[n].id) # {}
             /\ LET first == FirstSightingIn(L, all_businesses[n].id)
                IN  /\ all_businesses[n].title = first.title
                    /\ all_businesses[n].address = first.address
                    /\ all_businesses[n].rating = first.rating.value
                    /\ all_businesses[n].reviews = first.rating.votes_count
        /\ report.built => report.businesses = all_businesses

\* A business seen at two points under different names, stored under the first.
C3_Witness ==
    LET L == Logged
    IN  /\ report.built
        /\ \E n \in 1..Len(report.businesses), a, b \in 1..Len(L) :
             /\ a < b
             /\ L[a].point # L[b].point
             /\ BizId(L[a].item) = report.businesses[n].id
             /\ BizId(L[b].item) = report.businesses[n].id
             /\ L[a].item.title # L[b].item.title
             /\ report.businesses[n].title = L[a].item.title

\* An observation as the rank mapping holds it.
Obs(biz_id, point_id, position) ==
    [business_id |-> biz_id, grid_point_id |-> point_id, position |-> position]

\* The rank mapping (or the rows) records only list places: each position is
\* the 0-based index plus one of an entry with that id in that point's list.
PositionsAreListPlaces(L, observations) ==
    \A o \in observations :
       \E n \in 1..Len(L) :
          /\ L[n].point = o.grid_point_id
          /\ HasIdentity(L[n].item)
          /\ BizId(L[n].item) = o.business_id
          /\ o.position = (L[n].k - 1) + 1

\* C4: the rank recorded for an entry is its 0-based index in its point's list
\* plus one, whatever was skipped before it: every recorded position is such a
\* place, every entry with an identifier is recorded at its own place (in the
\* script's mapping unless the same list repeats its id further down), the
\* rows of a point come in list order, and the report's mapping holds only
\* such places too.
C4_RankIsListIndexPlusOne ==
    LET L == Logged
        observed == Observations
    IN  /\ PositionsAreListPlaces(L, observed)
        /\ \A n \in 1..Len(L) :
              HasIdentity(L[n].item) =>
                 \/ Obs(BizId(L[n].item), L[n].point, L[n].k) \in observed
                 \/ /\ impl = "script"
                    /\ \E m \in 1..Len(L) :
                          /\ L[m].point = L[n].point
                          /\ L[m].k > L[n].k
                          /\ HasIdentity(L[m].item)
                          /\ BizId(L[m].item) = BizId(L[n].item)
        /\ \A a, b \in 1..Len(all_rankings) :
              (a < b /\ all_rankings[a].grid_point_id = all_rankings[b].grid_point_id)
                 => all_rankings[a].ranking_position < all_rankings[b].ranking_position
        /\ report.built => PositionsAreListPlaces(L, report.rankings)

\* An entry at index 2 recorded with rank 3 although both entries before it
\* were skipped for having no identifier.
C4_Witness ==
    /\ report.built
    /\ \E n \in 1..Len(log) :
          /\ Len(log[n].outcome.items) = 3
          /\ ~HasIdentity(log[n].outcome.items[1])
          /\ ~HasIdentity(log[n].outcome.items[2])
          /\ HasIdentity(log[n].outcome.items[3])
          /\ Obs(BizId(log[n].outcome.items[3]), log[n].point, 3) \in report.rankings

\* The identities the entries of point_id's list stand for: the place id where
\* there is one, else the cid where there is one.
PreferredIdsAt(L, point_id) ==
    { L[n].item.place_id :
        n \in { m \in 1..Len(L) : L[m].point = point_id /\ L[m].item.place_id # NoId } }
      \cup
    { L[n].item.cid :
        n \in { m \in 1..Len(L) : /\ L[m].point = point_id
                                   /\ L[m].item.place_id = NoId
                                   /\ L[m].item.cid # NoId } }

PolledPoints == { log[n].point : n \in 1..Len(log) }

\* C5: entries with neither identifier leave no trace: no business record and
\* no observation carries a missing id, the businesses observed at a point are
\* exactly the place ids of its entries and the cids of its entries without a
\* place id, the registry holds exactly those ids, and the class appends one
\* row per entry that has an identifier.
C5_MissingIdentifierDiscarded ==
    LET L == Logged
        observed == Observations
    IN  /\ \A n \in 1..Len(all_businesses) : all_businesses[n].id # NoId
        /\ \A o \in observed : o.business_id # NoId
        /\ \A p \in PolledPoints :
              { o.business_id : o \in { u \in observed : u.grid_point_id = p } }
                 = PreferredIdsAt(L, p)
        /\ { all_businesses[n].id : n \in 1..Len(all_businesses) }
              = UNION { PreferredIdsAt(L, p) : p \in PolledPoints }
        /\ impl = "class" =>
              Len(all_rankings) = Cardinality({ n \in 1..Len(L) : HasIdentity(L[n].item) })
        /\ report.built =>
              \A p \in PolledPoints :
                 { o.business_id : o \in { u \in report.rankings : u.grid_point_id = p } }
                    = PreferredIdsAt(L, p)

\* A list holding an entry without identifiers and an entry with both, which
\* is reported under its place id alone.
C5_Witness ==
    /\ report.built
    /\ \E n \in 1..Len(log) :
          \E a, b \in 1..Len(log[n].outcome.items) :
             /\ ~HasIdentity(log[n].outcome.items[a])
             /\ log[n].outcome.items[b].place_id # NoId
             /\ log[n].outcome.items[b].cid # NoId
             /\ { o.business_id : o \in { u \in report.rankings : u.grid_point_id = log[n].point } }
                   = {log[n].outcome.items[b].place_id}
             /\ { report.businesses[m].id : m \in 1..Len(report.businesses) }
                   = {log[n].outcome.items[b].place_id}

\* The orders in which n answers can be processed.
Perms(n) == { f \in [1..n -> 1..n] : \A a, b \in 1..n : f[a] = f[b] => a = b }

\* The script's aggregation of the first n of entries.
RECURSIVE AggregateScript(_, _)
AggregateScript(entries, n) ==
    IF n = 0 THEN [businesses |-> <<>>, rankings |-> {}]
    ELSE ScriptPoint(AggregateScript(entries, n - 1), entries[n].point, entries[n].outcome)

\* The class's aggregation of the first n of entries.
RECURSIVE AggregateClass(_, _)
AggregateClass(entries, n) ==
    IF n = 0 THEN [businesses |-> <<>>, rankings |-> <<>>]
    ELSE ClassPoint(AggregateClass(entries, n - 1), grid_points[entries[n].point + 1],
                    entries[n].outcome)

\* The registry and the rank mapping had the logged answers been processed in
\* the order f.
AggregatedIn(f) ==
    LET entries == [k \in 1..Len(log) |-> log[f[k]]]
    IN  IF impl = "script" THEN AggregateScript(entries, Len(entries))
        ELSE LET st == AggregateClass(entries, Len(entries))
             IN  [businesses |-> st.businesses,
                  rankings |-> OrganizeRankings(st.rankings, Len(st.rankings))]

RecordsOf(businesses) == { businesses[n] : n \in 1..Len(businesses) }
IdsOf(businesses) == { businesses[n].id : n \in 1..Len(businesses) }

\* C6 as stated: whatever the order the points are processed in, the report
\* has the same business records, stored fields included, and the same rank
\* mapping.
C6_OrderIndependent ==
    report.built =>
       \A f \in Perms(Len(log)) :
          /\ AggregatedIn(f).rankings = report.rankings
          /\ RecordsOf(AggregatedIn(f).businesses) = RecordsOf(report.businesses)

\* C6, amended: whatever the order the points are processed in, the rank
\* mapping and the set of business ids are the same, and the fields stored for
\* a business are those of one of its sightings.
C6_RankingsOrderIndependent ==
    report.built =>
       \A f \in Perms(Len(log)) :
          /\ AggregatedIn(f).rankings = report.rankings
          /\ IdsOf(AggregatedIn(f).businesses) = IdsOf(report.businesses)
          /\ LET L == Logged
             IN  \A b \in RecordsOf(AggregatedIn(f).businesses) :
                    \E n \in SightingsIn(L, b.id) :
                       /\ b.title = L[n].item.title
                       /\ b.address = L[n].item.address
                       /\ b.rating = L[n].item.rating.value
                       /\ b.reviews = L[n].item.rating.votes_count

\* Two points whose answers, processed the other way round, give the same rank
\* mapping and other stored fields.
C6_Witness ==
    /\ report.built
    /\ Len(log) = 2
    /\ report.rankings # {}
    /\ \E f \in Perms(Len(log)) :
          /\ AggregatedIn(f).rankings = report.rankings
          /\ IdsOf(AggregatedIn(f).businesses) = IdsOf(report.businesses)
          /\ RecordsOf(AggregatedIn(f).businesses) # RecordsOf(report.businesses)

FailedPersisting == error.at \in {"publish", "record"}

C8_NoPartialSuccess ==
    FailedPersisting =>
       /\ HasArtifact(github, AnalysisId) => db.status = "completed"
       /\ db.rows = <<>>

\* C9: with a point count of 0 or less the run ends in an error raised by the
\* grid computation, before any fetch, publication or database call, and
\* without a grid or a report.
C9_NonPositiveCountIsFatal ==
    num_points <= 0 =>
       /\ pc \in {"start", "failed"}
       /\ pc = "failed" => /\ error.at = "grid"
                           /\ error.kind \in {"ValueError", "ZeroDivisionError"}
                           /\ error.seen_by # "none"
       /\ log = <<>>
       /\ api_calls = 0
       /\ put_calls = 0
       /\ db_calls = 0
       /\ github = {}
       /\ db = EmptyDb
       /\ grid_points = <<>>
       /\ ~report.built

\* A run for zero points, ended by the division by zero.
C9_Witness ==
    /\ num_points = 0
    /\ pc = "failed"
    /\ error.kind = "ZeroDivisionError"
    /\ error.at = "grid"

\* C10: a publication under an id whose artifact is already stored succeeds
\* and leaves exactly one artifact under that id, holding the new content.
C10_RepublishOverwrites ==
    (last_push.by # "none" /\ last_push.existed) =>
       /\ last_push.ok
       /\ Cardinality({ a \in github : a.path = last_push.path }) = 1
       /\ \A a \in github : a.path = last_push.path => a.content = last_push.content

\* The (business, point, position) a ranking row carries.
RowObs(row) == Obs(row.business_id, row.grid_point_id, row.ranking_position)

\* C11: after a successful run the ranking rows handed to the recorder are one
\* row per entry of the report's rank mapping: every entry has exactly one
\* row, and every row is an entry of the mapping (so no pair of business and
\* point has a second row or a row with another position).
C11_RowsMatchRankMapping ==
    pc = "completed" =>
       /\ \A o \in report.rankings :
             Cardinality({ n \in 1..Len(db.rows) :
                             /\ db.rows[n].business_id = o.business_id
                             /\ db.rows[n].grid_point_id = o.grid_point_id }) = 1
       /\ \A n \in 1..Len(db.rows) : RowObs(db.rows[n]) \in report.rankings

\* What the script computes from a sequence of fetch outcomes: a failed fetch
\* is skipped and the report is built from the others.
ScriptComputes(entries) ==
    LET st == AggregateScript(entries, Len(entries))
    IN  [built |-> TRUE, businesses |-> st.businesses, rankings |-> st.rankings]

\* What the class computes from a sequence of fetch outcomes: no report when a
\* fetch fails, else the registry and the mapping organised from all_rankings.
ClassComputes(entries) ==
    IF \E n \in 1..Len(entries) : ~entries[n].outcome.ok
    THEN [built |-> FALSE, businesses |-> <<>>, rankings |-> {}]
    ELSE LET st == AggregateClass(entries, Len(entries))
         IN  [built |-> TRUE, businesses |-> st.businesses,
              rankings |-> OrganizeRankings(st.rankings, Len(st.rankings))]

\* The polling is over: the report is built, or a fetch ended the run.
PollingOver == report.built \/ error.at = "fetch"

\* C12: the two implementations compute the same thing: once the polling is
\* over, the script and the class, given the fetch outcomes of this run
\* (answered lists and failed fetches alike), produce the same business list
\* and the same rank mapping, which are those of this run's report, over the
\* generated grid points.
C12_ImplementationsAgree ==
    PollingOver =>
       /\ ScriptComputes(log) = ClassComputes(log)
       /\ report.built
       /\ report.grid_points = grid_points
       /\ report.businesses = ScriptComputes(log).businesses
       /\ report.rankings = ScriptComputes(log).rankings

\* The ids of the generated grid points.
GridPointIds(points) == { points[k].id : k \in 1..Len(points) }

\* Every business with a rank entry is in the registry and the other way
\* round, every entry is at a generated grid point, at a position from 1 on.
WellFormed(businesses, observations, points) ==
    /\ { o.business_id : o \in observations } = IdsOf(businesses)
    /\ \A o \in observations :
          /\ o.grid_point_id \in GridPointIds(points)
          /\ o.position >= 1

\* C13: throughout the aggregation, and in the report built from it, the
\* business ids with a rank entry are exactly the ids of the registry, every
\* rank entry is keyed by the id of a generated grid point, and every
\* recorded position is at least 1.
C13_RegistryMatchesRankEntries ==
    /\ WellFormed(all_businesses, Observations, grid_points)
    /\ report.built => WellFormed(report.businesses, report.rankings, report.grid_points)

\* In the middle of the aggregation: one point of two is processed, and it
\* gave both businesses, one of them without a rating.
C13_Witness ==
    /\ pc = "poll"
    /\ idx = 2
    /\ Len(grid_points) = 2
    /\ IdsOf(all_businesses) = {"A", "B"}
    /\ Cardinality(Observations) >= 2

\* The places (from 1) of a point's list at which the business id occurs.
PlacesOf(items, biz_id) == { k \in 1..Len(items) : BizId(items[k]) = biz_id }

Largest(S) == CHOOSE k \in S : \A q \in S : q <= k

\* C14: when a point's list holds the same business id more than once, the
\* report's rank mapping has a single position for the business at that
\* point, the position of the last occurrence in the list.
C14_LastOccurrenceWins ==
    report.built =>
       \A n \in 1..Len(log) :
          \A item \in Items :
             LET places == PlacesOf(log[n].outcome.items, BizId(item))
             IN  (HasIdentity(item) /\ places # {}) =>
                    PositionsAt(report.rankings, BizId(item), log[n].point)
                       = { RankOf(Largest(places)) }

\* A list that names one business at two places: the mapping holds the later
\* place and not the earlier one.
C14_Witness ==
    /\ report.built
    /\ \E n \in 1..Len(log) :
          \E a, b \in 1..Len(log[n].outcome.items) :
             LET items == log[n].outcome.items
             IN  /\ a < b
                 /\ HasIdentity(items[a])
                 /\ BizId(items[a]) = BizId(items[b])
                 /\ Obs(BizId(items[b]), log[n].point, b) \in report.rankings
                 /\ Obs(BizId(items[a]), log[n].point, a) \notin report.rankings

====
